---- MODULE Spec2Model ----
(***************************************************************************)
(* Meesho supplier-quality agent: the ticket-and-alert pipeline.           *)
(*                                                                         *)
(* src/unnamed/part_000 holds three versions of the Streamlit script       *)
(* meesho_ai_agent_with_tickets.py (lines 1-167, 169-350, 352-522); they   *)
(* are called variant 1, 2 and 3 here.  src/email_alerts.py is a fourth,   *)
(* stand-alone notifier.  A Streamlit script runs top to bottom once per   *)
(* user interaction; one behaviour of Spec is one such execution with a    *)
(* file uploaded and the "Run" button pressed.                             *)
(***************************************************************************)
EXTENDS Integers, Sequences, FiniteSets, TLC

VARIABLES
    variant,                \* which version of the script is running (1, 2, 3)
    df,                     \* the uploaded batch: sequence of rows (column -> value)
    columns,                \* df.columns
    openai_up,              \* variant 2: the remote classifier answers (else raises)
    auto_ticket_threshold,  \* sidebar number_input
    email_alerts,           \* sidebar checkbox
    USE_EMAIL_ALERTS,       \* environment flag (variant 1)
    smtp,                   \* how the mail environment answers in this execution,
                            \* "unseen" until the first send meets it
    writable,               \* whether tickets.csv can be opened for writing
    tickets_file,           \* tickets.csv: [exists, lines]
    supplier_counts,        \* sequence of <<supplier, count>>
    new_tickets,            \* the run's created tickets, in creation order
    emails,                 \* notification attempts made, in order
    tickets_df,             \* result of the trailing pd.read_csv(TICKETS_FILE)
    clock,                  \* time.time()*1000 at the last reading
    pc,                     \* position in the script
    idx,                    \* position in the running for-loop
    error,                  \* exception that ended the script, "" if none
    classify_call,          \* one call of call_openai_classify (SpecClassify)
    notify_call,            \* one call of send_email_alert (SpecNotify)
    procs                   \* concurrent script executions (SpecInit)

vars == <<variant, df, columns, openai_up, auto_ticket_threshold, email_alerts,
          USE_EMAIL_ALERTS, smtp, writable, tickets_file, supplier_counts,
          new_tickets, emails, tickets_df, clock, pc, idx, error,
          classify_call, notify_call, procs>>

pipeline_vars == <<variant, df, columns, openai_up, auto_ticket_threshold,
                   email_alerts, USE_EMAIL_ALERTS, smtp, writable, tickets_file,
                   supplier_counts, new_tickets, emails, tickets_df, clock, pc,
                   idx, error>>

(***************************************************************************)
(* Text.  A Python str that the code searches is a sequence of one-letter  *)
(* strings, so that lower() and the substring test `in` are computed.      *)
(***************************************************************************)
UpperChars == <<"A","B","C","D","E","F","G","H","I","J","K","L","M",
                "N","O","P","Q","R","S","T","U","V","W","X","Y","Z">>
LowerChars == <<"a","b","c","d","e","f","g","h","i","j","k","l","m",
                "n","o","p","q","r","s","t","u","v","w","x","y","z">>

lower_char(c) ==
    IF \E i \in DOMAIN UpperChars : UpperChars[i] = c
    THEN LowerChars[CHOOSE i \in DOMAIN UpperChars : UpperChars[i] = c]
    ELSE c

\* str.lower()
RECURSIVE lower(_)
lower(text) ==
    IF text = <<>> THEN <<>>
    ELSE <<lower_char(Head(text))>> \o lower(Tail(text))

\* word in text
contains(word, text) ==
    \E i \in 1..(Len(text) - Len(word) + 1) :
        SubSeq(text, i, i + Len(word) - 1) = word

W_damage   == <<"d","a","m","a","g","e">>
W_wrong    == <<"w","r","o","n","g">>
W_missing  == <<"m","i","s","s","i","n","g">>
W_color    == <<"c","o","l","o","r">>
W_defect   == <<"d","e","f","e","c","t">>
W_late     == <<"l","a","t","e">>
W_courier  == <<"c","o","u","r","i","e","r">>
W_delivery == <<"d","e","l","i","v","e","r","y">>
W_supplier == <<"s","u","p","p","l","i","e","r">>
W_logistic == <<"l","o","g","i","s","t","i","c">>

SupplierIssue  == "Supplier Issue"
LogisticsIssue == "Logistics Issue"
CustomerIssue  == "Customer Issue"
Unknown        == "Unknown"

(***************************************************************************)
(* Classifier                                                              *)
(***************************************************************************)
\* variant 1: the chain of `or` tests
call_openai_classify_v1(text) ==
    LET t == lower(text) IN
    IF contains(W_damage, t) \/ contains(W_wrong, t)
       \/ contains(W_missing, t) \/ contains(W_color, t)
    THEN SupplierIssue
    ELSE IF contains(W_late, t) \/ contains(W_courier, t) \/ contains(W_delivery, t)
    THEN LogisticsIssue
    ELSE CustomerIssue

\* variant 3: any(word in text for word in [...])
call_openai_classify_v3(text) ==
    LET t == lower(text) IN
    IF \E w \in {W_damage, W_wrong, W_missing, W_color, W_defect} : contains(w, t)
    THEN SupplierIssue
    ELSE IF \E w \in {W_late, W_courier, W_delivery} : contains(w, t)
    THEN LogisticsIssue
    ELSE CustomerIssue

\* variant 2: resp is what openai.ChatCompletion.create did: [ok, content];
\* a raised exception is caught and gives "Unknown"
call_openai_classify_v2(resp) ==
    IF ~resp.ok THEN Unknown
    ELSE LET answer == lower(resp.content) IN
         IF contains(W_supplier, answer) THEN SupplierIssue
         ELSE IF contains(W_logistic, answer) THEN LogisticsIssue
         ELSE CustomerIssue

(***************************************************************************)
(* Values.  A pandas / csv cell is [k, s]: its Python type and its str().  *)
(***************************************************************************)
Str(s)   == [k |-> "str",   s |-> s]
IntV(s)   == [k |-> "int",   s |-> s]
FloatV(s) == [k |-> "float", s |-> s]
NaN      == [k |-> "nan",   s |-> "nan"]

\* dict.get(key, default) / Series.get(key, default)
Get(row, key, default) == IF key \in DOMAIN row THEN row[key] ELSE default

(***************************************************************************)
(* Ticket ledger: tickets.csv                                              *)
(***************************************************************************)
HEADER == <<"Ticket_ID", "Complaint_ID", "Supplier", "Product", "Order_ID",
            "Issue", "Created_At", "Status", "Notes">>

\* csv.writer.writerow: every value is written as str(value).  The writer
\* quotes delimiters, quotes and line breaks and the parser undoes it, so a
\* written line is the tuple of its cell texts.
writerow(values) == [i \in 1..Len(values) |-> values[i].s]

AbsentFile == [exists |-> FALSE, lines |-> <<>>]

\* `if not os.path.exists(TICKETS_FILE)`: open(.., "w") and write the header
EnsureHeader(file) ==
    IF file.exists THEN file
    ELSE [exists |-> TRUE, lines |-> <<HEADER>>]

\* int(time.time()*1000) rendered by the f-string T{...}
TicketIdOf(ms) == "T" \o ToString(ms)

MsPerSecond == 1000

\* datetime.now().isoformat(sep=' ', timespec='seconds'): the second the
\* clock reading falls in (the date part is the same for every reading here)
CreatedAtOf(ms) == "1970-01-01 00:00:" \o ToString(ms \div MsPerSecond)

\* the dict built by create_ticket_entry
TicketDict(complaint_row, issue_text, ms) ==
    [Ticket_ID    |-> Str(TicketIdOf(ms)),
     Complaint_ID |-> Get(complaint_row, "Complaint_ID", Str("")),
     Supplier     |-> Get(complaint_row, "Supplier", Str("")),
     Product      |-> Get(complaint_row, "Product", Str("")),
     Order_ID     |-> Get(complaint_row, "Order_ID", Str("")),
     Issue        |-> Str(issue_text),
     Created_At   |-> Str(CreatedAtOf(ms)),
     Status       |-> Str("Open"),
     Notes        |-> Str("")]

\* ticket.values(): the dict's values in insertion order
TicketValues(ticket) == [i \in 1..Len(HEADER) |-> ticket[HEADER[i]]]

\* open(TICKETS_FILE, "a") + writerow: one line added at the end of the file
\* (mode "a" creates the file when it is absent)
AppendLine(file, line) ==
    [exists |-> TRUE, lines |-> Append(file.lines, line)]

(***************************************************************************)
(* pd.read_csv(TICKETS_FILE): first line is the header; each column's type *)
(* is inferred from all of its cells.                                      *)
(***************************************************************************)
\* pandas' default na_values
NA_VALUES == {"", "#N/A", "#N/A N/A", "#NA", "-1.#IND", "-1.#QNAN", "-NaN",
              "-nan", "1.#IND", "1.#QNAN", "<NA>", "N/A", "NA", "NULL", "NaN",
              "None", "n/a", "nan", "null"}

\* the decimal integer literals that occur in this model's cells
IntLiterals == {ToString(n) : n \in 0..200}

ColumnTexts(records, c) == {records[i][c] : i \in 1..Len(records)}

\* the cell pandas makes of text `t` in a column whose cell texts are `texts`
ParseCell(t, texts) ==
    LET present == texts \ NA_VALUES IN
    IF t \in NA_VALUES THEN NaN
    ELSE IF present \subseteq IntLiterals
         THEN IF texts \cap NA_VALUES = {} THEN IntV(t) ELSE FloatV(t \o ".0")
         ELSE Str(t)

\* [ok, rows]: rows in file order, each a record column name -> cell.
\* A missing or empty file, or a line whose width differs from the header's,
\* raises (EmptyDataError, FileNotFoundError, ParserError).
read_csv(file) ==
    IF ~file.exists \/ file.lines = <<>> THEN [ok |-> FALSE, rows |-> <<>>]
    ELSE LET names   == Head(file.lines)
             records == Tail(file.lines)
         IN  IF \E i \in 1..Len(records) : Len(records[i]) # Len(names)
             THEN [ok |-> FALSE, rows |-> <<>>]
             ELSE [ok |-> TRUE,
                   rows |-> [i \in 1..Len(records) |->
                       [n \in {names[c] : c \in 1..Len(names)} |->
                           LET c == CHOOSE c \in 1..Len(names) : names[c] = n
                           IN  ParseCell(records[i][c], ColumnTexts(records, c))]]]

(***************************************************************************)
(* Notifier                                                                *)
(***************************************************************************)
SmtpModes == {"ok", "no_config", "connect_fail", "auth_fail", "send_fail"}

Pair(success, detail) == [kind |-> "pair", success |-> success, detail |-> detail]
None == [kind |-> "None"]
Raised(exc) == [kind |-> "raise", exc |-> exc]

\* smtplib.SMTP(...); starttls(); login(...); sendmail(...); quit():
\* the exception the session raises, "" when the message was sent
SmtpSession(mode) ==
    IF mode = "connect_fail" THEN "ConnectionRefusedError"
    ELSE IF mode = "auth_fail" THEN "SMTPAuthenticationError"
    ELSE IF mode = "send_fail" THEN "SMTPRecipientsRefused"
    ELSE ""

\* variant 1: send_email_alert(ticket, recipient)
send_email_alert_v1(ticket, recipient, mode) ==
    IF mode = "no_config" THEN Pair(FALSE, "Email settings not configured.")
    ELSE IF SmtpSession(mode) # "" THEN Pair(FALSE, SmtpSession(mode))
    ELSE Pair(TRUE, "Email sent successfully.")

\* variant 2: send_email_alert(recipient, supplier, count)
send_email_alert_v2(recipient, supplier, count, mode) ==
    IF mode = "no_config" THEN Pair(FALSE, "Email settings not configured.")
    ELSE IF SmtpSession(mode) # "" THEN Pair(FALSE, SmtpSession(mode))
    ELSE Pair(TRUE, "Email alert sent successfully.")

\* variant 3: send_email_alert(ticket, recipient)
send_email_alert_v3(ticket, recipient, mode) ==
    IF mode = "no_config" THEN Pair(FALSE, "Email settings not configured.")
    ELSE IF SmtpSession(mode) # "" THEN Pair(FALSE, SmtpSession(mode))
    ELSE Pair(TRUE, "Email sent successfully.")

\* email_alerts.py: st.secrets["EMAIL_USER"] at import raises KeyError when
\* the secret is missing; the function reports through st.success/st.error
\* and has no return statement
send_email_alert_py(to_email, supplier_name, issue_count, mode) ==
    IF mode = "no_config" THEN Raised("KeyError")
    ELSE None

(***************************************************************************)
(* Inputs of one execution                                                 *)
(***************************************************************************)
MaxRows          == 3   \* longest upload that mixes kinds of rows
MaxBulkRows      == 4   \* longest upload of one kind of row
MaxDeficientRows == 1   \* longest upload that lacks a column
MaxThreshold     == 2   \* largest auto_ticket_threshold tried (the widget allows 1..100)
MaxClock         == 1   \* last millisecond the clock reaches

THRESHOLD == 3

M_WrongColor  == <<"W","r","o","n","g"," ">> \o W_color
M_ArrivedLate == <<"A","r","r","i","v","e","d"," ">> \o W_late
M_Damaged     == <<"D","A","M","A","G","E","D">>
M_Refund      == <<"r","e","f","u","n","d">>

\* suppliers of the uploads, in the order str comparison gives them
SupplierNames == <<"Acme", "Bolt">>

RowKinds == {<<"Acme", M_WrongColor>>, <<"Acme", M_ArrivedLate>>,
             <<"Bolt", M_Damaged>>, <<"Bolt", M_Refund>>}

AllColumns      == {"Complaint_ID", "Message", "Supplier", "Product", "Order_ID"}
ColumnSets      == {AllColumns} \cup {AllColumns \ {c} : c \in AllColumns}

\* row i of an upload that has the columns `cols`, as pd.read_csv gives it
UploadRow(i, kind, cols) ==
    LET full == [Complaint_ID |-> Str("C" \o ToString(i)),
                 Supplier     |-> Str(kind[1]),
                 Product      |-> Str("Shoe"),
                 Order_ID     |-> IntV(ToString(100 + i)),
                 Message      |-> kind[2]]
    IN  [c \in cols |-> full[c]]

MixedUploads(n) == UNION {[1..m -> RowKinds] : m \in 0..n}
BulkUploads == {[i \in 1..n |-> k] : k \in RowKinds, n \in (THRESHOLD + 1)..MaxBulkRows}

\* the uploads tried: <<columns, kinds of the rows>>
Uploads ==
    ({AllColumns} \X (MixedUploads(MaxRows) \cup BulkUploads))
    \cup ((ColumnSets \ {AllColumns}) \X MixedUploads(MaxDeficientRows))

(***************************************************************************)
(* Orchestrator: helpers                                                   *)
(***************************************************************************)
\* variant 2, lines 301-302
required_cols == {"Complaint_ID", "Message", "Supplier", "Product"}

\* the reply of the remote chat model to the prompt about `text`, when it
\* replies: the category phrase, in one of the forms such models use
RemoteContent(text) ==
    LET c == call_openai_classify_v3(text) IN
    IF c = SupplierIssue
    THEN <<"S","u","p","p","l","i","e","r"," ","I","s","s","u","e">>
    ELSE IF c = LogisticsIssue
    THEN <<"l","o","g","i","s","t","i","c","s"," ","i","s","s","u","e",".">>
    ELSE <<"C","u","s","t","o","m","e","r"," ","I","s","s","u","e">>

\* df["Message"].apply(call_openai_classify)
Categorize(v, text, up) ==
    IF v = 1 THEN call_openai_classify_v1(text)
    ELSE IF v = 2 THEN call_openai_classify_v2([ok |-> up, content |-> RemoteContent(text)])
    ELSE call_openai_classify_v3(text)

WithCategory(rows, v, up) ==
    [i \in 1..Len(rows) |->
        rows[i] @@ ("AI_Category" :> Categorize(v, rows[i]["Message"], up))]

\* the test with the wrong comparison: every row that is not a customer issue
IsSupplierIssue_AnyNonCustomer(row) == row["AI_Category"] # CustomerIssue

\* row["AI_Category"] == "Supplier Issue"
IsSupplierIssue(row) == row["AI_Category"] = SupplierIssue

\* indices of the rows a filter keeps, as a sequence in row order
RECURSIVE Kept(_, _)
Kept(flags, i) ==
    IF i > Len(flags) THEN <<>>
    ELSE (IF flags[i] THEN <<i>> ELSE <<>>) \o Kept(flags, i + 1)

\* Series.value_counts(): one entry per distinct value, most frequent first,
\* equal counts in order of first appearance
RECURSIVE CountsDescending(_, _)
CountsDescending(values, keys) ==
    IF keys = {} THEN <<>>
    ELSE LET Count(k) == Cardinality({i \in 1..Len(values) : values[i] = k})
             First(k) == CHOOSE i \in 1..Len(values) :
                            /\ values[i] = k
                            /\ \A j \in 1..(i - 1) : values[j] # k
             best == CHOOSE k \in keys : \A j \in keys :
                        \/ Count(k) > Count(j)
                        \/ Count(k) = Count(j) /\ First(k) <= First(j)
         IN  <<<<best, Count(best)>>>> \o CountsDescending(values, keys \ {best})

value_counts(values) ==
    CountsDescending(values, {values[i] : i \in 1..Len(values)})

\* variants 1 and 2: df[df["AI_Category"] == "Supplier Issue"]["Supplier"].value_counts()
SupplierIssueCounts(rows) ==
    LET keep == Kept([i \in 1..Len(rows) |-> IsSupplierIssue(rows[i])], 1)
    IN  value_counts([j \in 1..Len(keep) |-> rows[keep[j]]["Supplier"]])

\* variant 3: df.groupby("Supplier")["Complaint_ID"].count(): one entry per
\* supplier in sorted key order, counting its rows with a Complaint_ID
AllComplaintCounts(rows) ==
    LET Count(name) == Cardinality({i \in 1..Len(rows) :
                          /\ rows[i]["Supplier"] = Str(name)
                          /\ rows[i]["Complaint_ID"] # NaN})
        Present(n)  == \E i \in 1..Len(rows) : rows[i]["Supplier"] = Str(SupplierNames[n])
        keep == Kept([n \in 1..Len(SupplierNames) |-> Present(n)], 1)
    IN  [j \in 1..Len(keep) |->
            <<Str(SupplierNames[keep[j]]), Count(SupplierNames[keep[j]])>>]

CountSuppliers(v, rows) ==
    IF v = 3 THEN AllComplaintCounts(rows) ELSE SupplierIssueCounts(rows)

\* df[df["Supplier"] == supplier].iloc[0].to_dict()
SampleRow(rows, supplier) ==
    rows[CHOOSE i \in 1..Len(rows) :
            /\ rows[i]["Supplier"] = supplier
            /\ \A j \in 1..(i - 1) : rows[j]["Supplier"] # supplier]

PerRowIssue == "Supplier Issue detected from complaint text"

AggregateIssue(v, supplier, cnt) ==
    IF v = 3
    THEN "Aggregate alert: " \o ToString(cnt) \o " total complaints for " \o supplier.s
    ELSE "Aggregate alert: " \o ToString(cnt) \o " supplier issues in upload"

\* cnt >= auto_ticket_threshold
ReachesThreshold(cnt, threshold) == cnt >= threshold

\* the guard in front of send_email_alert in the ticket loops
NotifyPerTicket ==
    \/ variant = 1 /\ email_alerts /\ USE_EMAIL_ALERTS
    \/ variant = 3 /\ email_alerts

email_recipient == "yuvaneshbabu007@gmail.com"
ALERT_EMAIL     == "yuvaneshbabu007@gmail.com"

(***************************************************************************)
(* Orchestrator: one execution of the script                               *)
(***************************************************************************)
config_vars == <<variant, columns, openai_up, auto_ticket_threshold,
                 email_alerts, USE_EMAIL_ALERTS>>
call_vars   == <<classify_call, notify_call, procs>>

NoCall == [done |-> FALSE]

InitPipeline ==
    /\ variant \in 1..3
    /\ \E u \in Uploads :
          /\ columns = u[1]
          /\ df = [i \in 1..Len(u[2]) |-> UploadRow(i, u[2][i], u[1])]
    /\ openai_up \in (IF variant = 2 THEN BOOLEAN ELSE {TRUE})
    /\ auto_ticket_threshold \in 1..MaxThreshold
    /\ email_alerts \in (IF variant = 2 THEN {FALSE} ELSE BOOLEAN)
    /\ USE_EMAIL_ALERTS \in (IF variant = 1 THEN BOOLEAN ELSE {FALSE})
    /\ smtp = "unseen"
    /\ writable = TRUE
    /\ tickets_file \in {AbsentFile, [exists |-> TRUE, lines |-> <<HEADER>>]}
    /\ supplier_counts = <<>>
    /\ new_tickets = <<>>
    /\ emails = <<>>
    /\ tickets_df = [ok |-> FALSE, rows |-> <<>>]
    /\ clock = 0
    /\ pc = "start"
    /\ idx = 0
    /\ error = ""

Init ==
    /\ InitPipeline
    /\ classify_call = NoCall
    /\ notify_call = NoCall
    /\ procs = <<>>

\* where the script is after the aggregate loop reached entry j
AtAggregate(j, counts) ==
    IF j <= Len(counts) THEN <<"aggregate", j>> ELSE <<"log", 0>>

\* where the script is after the per-row loop reached row i
AtRow(i, rows, counts) ==
    IF i <= Len(rows) THEN <<"rows", i>> ELSE AtAggregate(1, counts)

\* lines 44-48 / 211-215 / 380-384
EnsureTicketsFile ==
    /\ pc = "start"
    /\ tickets_file.exists \/ writable
    /\ tickets_file' = EnsureHeader(tickets_file)
    /\ pc' = "upload"
    /\ UNCHANGED <<config_vars, smtp, df, writable, supplier_counts, new_tickets,
                   emails, tickets_df, clock, idx, error, call_vars>>

\* variant 2: st.error when a required column is missing; the button is not shown
RejectUpload ==
    /\ pc = "upload"
    /\ variant = 2
    /\ ~(required_cols \subseteq columns)
    /\ pc' = "log"
    /\ UNCHANGED <<config_vars, smtp, df, writable, tickets_file, supplier_counts,
                   new_tickets, emails, tickets_df, clock, idx, error, call_vars>>

\* the upload passes what check the variant makes
Accepted == variant # 2 \/ required_cols \subseteq columns

\* the columns the lines from the classification to the counts index
IndexedColumns == {"Complaint_ID", "Message", "Supplier"}

\* df["Message"] or df[["Complaint_ID", "Message", "Supplier", "AI_Category"]]
\* raises KeyError in variants 1 and 3, which check nothing
ClassifyKeyError ==
    /\ pc = "upload"
    /\ Accepted
    /\ ~(IndexedColumns \subseteq columns)
    /\ df' = IF "Message" \in columns THEN WithCategory(df, variant, openai_up) ELSE df
    /\ pc' = "crashed"
    /\ error' = "KeyError"
    /\ UNCHANGED <<config_vars, smtp, writable, tickets_file, supplier_counts,
                   new_tickets, emails, tickets_df, clock, idx, call_vars>>

\* classification and supplier_counts
Classify ==
    /\ pc = "upload"
    /\ Accepted
    /\ IndexedColumns \subseteq columns
    /\ df' = WithCategory(df, variant, openai_up)
    /\ supplier_counts' = CountSuppliers(variant, df')
    /\ LET at == IF variant = 2 THEN <<"alerts", 1>>
                 ELSE AtRow(1, df', supplier_counts')
       IN  pc' = at[1] /\ idx' = at[2]
    /\ UNCHANGED <<config_vars, smtp, writable, tickets_file, new_tickets, emails,
                   tickets_df, clock, error, call_vars>>

\* the mail environment a send meets
MailModes == IF smtp = "unseen" THEN SmtpModes ELSE {smtp}

\* the e-mails the loop of lines 316-319 sends, from entry j on
RECURSIVE ThresholdEmails(_, _, _)
ThresholdEmails(counts, j, mode) ==
    IF j > Len(counts) THEN <<>>
    ELSE (IF counts[j][2] > THRESHOLD
          THEN <<[to        |-> ALERT_EMAIL,
                  ticket_id |-> "",
                  supplier  |-> counts[j][1],
                  result    |-> send_email_alert_v2(ALERT_EMAIL, counts[j][1],
                                                    counts[j][2], mode)]>>
          ELSE <<>>) \o ThresholdEmails(counts, j + 1, mode)

\* variant 2: "Email alert if threshold exceeded", before any ticket is created
ThresholdAlerts ==
    /\ pc = "alerts"
    /\ IF \E j \in 1..Len(supplier_counts) : supplier_counts[j][2] > THRESHOLD
       THEN \E mode \in MailModes :
               /\ smtp' = mode
               /\ emails' = emails \o ThresholdEmails(supplier_counts, 1, mode)
       ELSE UNCHANGED <<smtp, emails>>
    /\ LET at == AtRow(1, df, supplier_counts)
       IN  pc' = at[1] /\ idx' = at[2]
    /\ UNCHANGED <<config_vars, df, writable, tickets_file, supplier_counts,
                   new_tickets, tickets_df, clock, error, call_vars>>

\* time.time() read again: the clock has not moved, or has moved on
ClockReadings == {ms \in {clock, clock + 1} : ms <= MaxClock}

\* create_ticket_entry(complaint_row, issue_text) at clock reading ms;
\* `then` is where the script goes when no notification follows
CreateTicket(complaint_row, issue_text, ms, notify_pc, then) ==
    LET ticket == TicketDict(complaint_row, issue_text, ms) IN
    /\ writable
    /\ clock' = ms
    /\ tickets_file' = AppendLine(tickets_file, writerow(TicketValues(ticket)))
    /\ new_tickets' = Append(new_tickets, ticket)
    /\ IF NotifyPerTicket
       THEN pc' = notify_pc /\ idx' = idx
       ELSE pc' = then[1] /\ idx' = then[2]

\* send_email_alert(ticket, email_recipient) for the ticket just created
NotifyLastTicket ==
    \E mode \in MailModes :
        LET ticket == new_tickets[Len(new_tickets)]
            result == IF variant = 1
                      THEN send_email_alert_v1(ticket, email_recipient, mode)
                      ELSE send_email_alert_v3(ticket, email_recipient, mode)
        IN  /\ smtp' = mode
            /\ emails' = Append(emails, [to        |-> email_recipient,
                                         ticket_id |-> ticket.Ticket_ID.s,
                                         supplier  |-> ticket.Supplier,
                                         result    |-> result])

\* per-row loop, a row classified "Supplier Issue"
PerRowTicket ==
    /\ pc = "rows"
    /\ IsSupplierIssue(df[idx])
    /\ \E ms \in ClockReadings :
          CreateTicket(df[idx], PerRowIssue, ms, "row_email",
                       AtRow(idx + 1, df, supplier_counts))
    /\ UNCHANGED <<config_vars, smtp, df, writable, supplier_counts, emails,
                   tickets_df, error, call_vars>>

\* per-row loop, any other row
PerRowSkip ==
    /\ pc = "rows"
    /\ ~IsSupplierIssue(df[idx])
    /\ LET at == AtRow(idx + 1, df, supplier_counts)
       IN  pc' = at[1] /\ idx' = at[2]
    /\ UNCHANGED <<config_vars, smtp, df, writable, tickets_file, supplier_counts,
                   new_tickets, emails, tickets_df, clock, error, call_vars>>

PerRowEmail ==
    /\ pc = "row_email"
    /\ NotifyLastTicket
    /\ LET at == AtRow(idx + 1, df, supplier_counts)
       IN  pc' = at[1] /\ idx' = at[2]
    /\ UNCHANGED <<config_vars, df, writable, tickets_file, supplier_counts,
                   new_tickets, tickets_df, clock, error, call_vars>>

\* aggregate loop, a supplier whose count reaches the threshold
AggregateTicket ==
    /\ pc = "aggregate"
    /\ LET supplier == supplier_counts[idx][1]
           cnt      == supplier_counts[idx][2]
       IN  /\ ReachesThreshold(cnt, auto_ticket_threshold)
           /\ \E ms \in ClockReadings :
                 CreateTicket(SampleRow(df, supplier),
                              AggregateIssue(variant, supplier, cnt), ms,
                              "aggregate_email",
                              AtAggregate(idx + 1, supplier_counts))
    /\ UNCHANGED <<config_vars, smtp, df, writable, supplier_counts, emails,
                   tickets_df, error, call_vars>>

AggregateSkip ==
    /\ pc = "aggregate"
    /\ ~ReachesThreshold(supplier_counts[idx][2], auto_ticket_threshold)
    /\ LET at == AtAggregate(idx + 1, supplier_counts)
       IN  pc' = at[1] /\ idx' = at[2]
    /\ UNCHANGED <<config_vars, smtp, df, writable, tickets_file, supplier_counts,
                   new_tickets, emails, tickets_df, clock, error, call_vars>>

AggregateEmail ==
    /\ pc = "aggregate_email"
    /\ NotifyLastTicket
    /\ LET at == AtAggregate(idx + 1, supplier_counts)
       IN  pc' = at[1] /\ idx' = at[2]
    /\ UNCHANGED <<config_vars, df, writable, tickets_file, supplier_counts,
                   new_tickets, tickets_df, clock, error, call_vars>>

\* "All Tickets Log": pd.read_csv(TICKETS_FILE) inside try/except.  The frame
\* shown is a sorted copy cut to 200 rows; tickets_df itself is what was read.
ShowLog ==
    /\ pc = "log"
    /\ tickets_df' = read_csv(tickets_file)
    /\ pc' = "done"
    /\ UNCHANGED <<config_vars, smtp, df, writable, tickets_file, supplier_counts,
                   new_tickets, emails, clock, idx, error, call_vars>>

Next ==
    \/ EnsureTicketsFile
    \/ RejectUpload
    \/ ClassifyKeyError
    \/ Classify
    \/ ThresholdAlerts
    \/ PerRowTicket
    \/ PerRowSkip
    \/ PerRowEmail
    \/ AggregateTicket
    \/ AggregateSkip
    \/ AggregateEmail
    \/ ShowLog

Spec == Init /\ [][Next]_vars

(***************************************************************************)
(* Storage failure: tickets.csv stops being writable during the execution. *)
(* open(TICKETS_FILE, "a") then raises; nothing in the script catches it.  *)
(***************************************************************************)
StorageBreaks ==
    /\ pc \notin {"start", "done", "crashed"}
    /\ writable
    /\ writable' = FALSE
    /\ UNCHANGED <<config_vars, smtp, df, tickets_file, supplier_counts,
                   new_tickets, emails, tickets_df, clock, pc, idx, error,
                   call_vars>>

\* the script is about to call create_ticket_entry
AtCreate ==
    \/ pc = "rows" /\ IsSupplierIssue(df[idx])
    \/ pc = "aggregate"
       /\ ReachesThreshold(supplier_counts[idx][2], auto_ticket_threshold)

\* create_ticket_entry raises at open(): the exception ends the script
AppendFails ==
    /\ AtCreate
    /\ ~writable
    /\ \E ms \in ClockReadings : clock' = ms
    /\ pc' = "crashed"
    /\ error' = "PermissionError"
    /\ UNCHANGED <<config_vars, smtp, df, writable, tickets_file,
                   supplier_counts, new_tickets, emails, tickets_df, idx,
                   call_vars>>

NextStorage == Next \/ StorageBreaks \/ AppendFails

SpecStorage == Init /\ [][NextStorage]_vars

(***************************************************************************)
(* One call of call_openai_classify                                        *)
(***************************************************************************)
MaxWords == 2     \* words in a classified message

Space == <<" ">>

Vocabulary ==
    {<<"D","a","m","a","g","e","d">>, <<"W","R","O","N","G">>, W_missing,
     <<"C","o","l","o","r">>, <<"d","e","f","e","c","t","i","v","e">>,
     W_late, <<"C","o","u","r","i","e","r">>, W_delivery,
     <<"r","e","f","u","n","d">>, <<"c","o","l","o","u","r">>}

RECURSIVE Messages(_)
Messages(n) ==
    IF n = 0 THEN {<<>>}
    ELSE Messages(n - 1)
         \cup Vocabulary
         \cup {m \o Space \o w : m \in Messages(n - 1) \ {<<>>}, w \in Vocabulary}

\* what openai.ChatCompletion.create can do: raise, or reply with a text
RemoteResponses ==
    {[ok |-> FALSE, content |-> <<>>],
     [ok |-> TRUE,  content |-> <<"S","u","p","p","l","i","e","r"," ","I","s","s","u","e">>],
     [ok |-> TRUE,  content |-> <<"L","O","G","I","S","T","I","C","S">>],
     [ok |-> TRUE,  content |-> W_logistic \o <<" ","o","r"," ">> \o W_supplier],
     [ok |-> TRUE,  content |-> <<"C","u","s","t","o","m","e","r"," ","I","s","s","u","e">>],
     [ok |-> TRUE,  content |-> <<>>]}

NoResponse == [ok |-> FALSE, content |-> <<>>]

IdlePipeline ==
    /\ variant = 0
    /\ df = <<>>
    /\ columns = {}
    /\ openai_up = TRUE
    /\ auto_ticket_threshold = 1
    /\ email_alerts = FALSE
    /\ USE_EMAIL_ALERTS = FALSE
    /\ smtp = "unseen"
    /\ writable = TRUE
    /\ tickets_file = AbsentFile
    /\ supplier_counts = <<>>
    /\ new_tickets = <<>>
    /\ emails = <<>>
    /\ tickets_df = [ok |-> FALSE, rows |-> <<>>]
    /\ clock = 0
    /\ pc = "idle"
    /\ idx = 0
    /\ error = ""

InitClassify ==
    /\ IdlePipeline
    /\ \/ \E v \in {1, 3}, m \in Messages(MaxWords) :
             classify_call = [done |-> FALSE, impl |-> v, text |-> m,
                              resp |-> NoResponse]
       \/ \E r \in RemoteResponses :
             classify_call = [done |-> FALSE, impl |-> 2, text |-> M_Refund,
                              resp |-> r]
    /\ notify_call = NoCall
    /\ procs = <<>>

call_openai_classify(impl, text, resp) ==
    IF impl = 1 THEN call_openai_classify_v1(text)
    ELSE IF impl = 2 THEN call_openai_classify_v2(resp)
    ELSE call_openai_classify_v3(text)

DoClassify ==
    /\ ~classify_call.done
    /\ classify_call' =
          [classify_call EXCEPT !.done = TRUE] @@
          ("out" :> call_openai_classify(classify_call.impl, classify_call.text,
                                         classify_call.resp))
    /\ UNCHANGED <<pipeline_vars, notify_call, procs>>

NextClassify == DoClassify

SpecClassify == InitClassify /\ [][NextClassify]_vars

(***************************************************************************)
(* One call of send_email_alert                                            *)
(***************************************************************************)
Recipients == {email_recipient, "quality@example.com"}

NotifiedTickets ==
    {TicketDict(UploadRow(1, k, AllColumns), PerRowIssue, 0) : k \in RowKinds}
    \cup {TicketDict(UploadRow(1, k, AllColumns),
                     AggregateIssue(1, Str(k[1]), THRESHOLD + 1), 0) : k \in RowKinds}

InitNotify ==
    /\ IdlePipeline
    /\ classify_call = NoCall
    /\ \E i \in 1..4, t \in NotifiedTickets, r \in Recipients :
          notify_call = [done |-> FALSE, impl |-> i, ticket |-> t, recipient |-> r]
    /\ procs = <<>>

\* impl 1, 2, 3: the variants of part_000; impl 4: email_alerts.py
send_email_alert(impl, ticket, recipient, mode) ==
    IF impl = 1 THEN send_email_alert_v1(ticket, recipient, mode)
    ELSE IF impl = 2 THEN send_email_alert_v2(recipient, ticket.Supplier, THRESHOLD + 1, mode)
    ELSE IF impl = 3 THEN send_email_alert_v3(ticket, recipient, mode)
    ELSE send_email_alert_py(recipient, ticket.Supplier, THRESHOLD + 1, mode)

DoNotify ==
    /\ ~notify_call.done
    /\ \E mode \in SmtpModes :
          notify_call' =
              [notify_call EXCEPT !.done = TRUE] @@
              ("mode" :> mode) @@
              ("result" :> send_email_alert(notify_call.impl, notify_call.ticket,
                                            notify_call.recipient, mode))
    /\ UNCHANGED <<pipeline_vars, classify_call, procs>>

NextNotify == DoNotify

SpecNotify == InitNotify /\ [][NextNotify]_vars

(***************************************************************************)
(* Several executions of the script at once on the same tickets.csv.  Each *)
(* runs the header creation of lines 44-48 and then appends tickets.  The  *)
(* file operations of one `with open(...)` block are separate steps: the   *)
(* os.path.exists test, open(.., "w") (which creates or truncates), and    *)
(* the close, which writes the buffered header at the handle's offset 0.   *)
(***************************************************************************)
NumProcs   == 2     \* concurrent executions
MaxAppends == 2     \* tickets each execution appends

Procs == 1..NumProcs

\* what is left of a record whose first bytes another handle overwrote
Fragment == <<"(rest of an overwritten record)">>

\* open(.., "w"): the file exists and is empty
Truncated == [exists |-> TRUE, lines |-> <<>>]

\* a handle opened with "w" writes its line at offset 0, over what the file
\* holds there by now: nothing, the same header, or the start of a record
\* (a record line is longer than the header line)
WriteAtStart(file, line) ==
    [exists |-> TRUE,
     lines  |-> IF file.lines = <<>> THEN <<line>>
                ELSE IF Head(file.lines) = line THEN file.lines
                ELSE <<line, Fragment>> \o Tail(file.lines)]

InitConcurrent ==
    /\ IdlePipeline
    /\ classify_call = NoCall
    /\ notify_call = NoCall
    /\ procs = [p \in Procs |-> [pc |-> "check", appended |-> 0]]

conc_unchanged == <<config_vars, smtp, df, writable, supplier_counts, new_tickets,
                    emails, tickets_df, pc, idx, error, classify_call, notify_call>>

\* if not os.path.exists(TICKETS_FILE)
CheckExists(p) ==
    /\ procs[p].pc = "check"
    /\ procs' = [procs EXCEPT ![p].pc = IF tickets_file.exists THEN "ready" ELSE "open"]
    /\ UNCHANGED <<tickets_file, clock, conc_unchanged>>

\* open(TICKETS_FILE, "w", ...)
OpenForWrite(p) ==
    /\ procs[p].pc = "open"
    /\ tickets_file' = Truncated
    /\ procs' = [procs EXCEPT ![p].pc = "write"]
    /\ UNCHANGED <<clock, conc_unchanged>>

\* writer.writerow([...header...]) and the end of the with block
WriteHeader(p) ==
    /\ procs[p].pc = "write"
    /\ tickets_file' = WriteAtStart(tickets_file, HEADER)
    /\ procs' = [procs EXCEPT ![p].pc = "ready"]
    /\ UNCHANGED <<clock, conc_unchanged>>

\* create_ticket_entry in execution p
AppendTicket(p) ==
    /\ procs[p].pc = "ready"
    /\ procs[p].appended < MaxAppends
    /\ \E ms \in ClockReadings :
          LET row    == UploadRow(p, <<"Acme", M_WrongColor>>, AllColumns)
              ticket == TicketDict(row, PerRowIssue, ms)
          IN  /\ clock' = ms
              /\ tickets_file' = AppendLine(tickets_file, writerow(TicketValues(ticket)))
    /\ procs' = [procs EXCEPT ![p].appended = @ + 1]
    /\ UNCHANGED conc_unchanged

NextConcurrent ==
    \E p \in Procs :
        \/ CheckExists(p)
        \/ OpenForWrite(p)
        \/ WriteHeader(p)
        \/ AppendTicket(p)

SpecConcurrent == InitConcurrent /\ [][NextConcurrent]_vars

(***************************************************************************)
(* Properties                                                              *)
(***************************************************************************)
\* the category the run gave a row, "" before the classification
CategoryOf(row) == Get(row, "AI_Category", "")

RECURSIVE SelectSeq2(_, _, _)
\* the entries of seq whose flag is set, in order
SelectSeq2(seq, flags, i) ==
    IF i > Len(seq) THEN <<>>
    ELSE (IF flags[i] THEN <<seq[i]>> ELSE <<>>) \o SelectSeq2(seq, flags, i + 1)

IsPerRowTicket(t) == t.Issue = Str(PerRowIssue)

PerRowTickets ==
    SelectSeq2(new_tickets, [i \in 1..Len(new_tickets) |-> IsPerRowTicket(new_tickets[i])], 1)

SupplierIssueRows ==
    SelectSeq2(df, [i \in 1..Len(df) |-> CategoryOf(df[i]) = SupplierIssue], 1)

\* ledger lines that hold a per-row ticket
PerRowLines ==
    {i \in 1..Len(tickets_file.lines) : tickets_file.lines[i][6] = PerRowIssue}

RunComplete == pc \in {"log", "done"}

\* C1: when a run has gone through its ticket loops, its per-row tickets are
\* exactly the rows classified "Supplier Issue", one ticket per such row and
\* in row order, each also a line of the ledger; rows of any other category
\* have none.
C1_PerRowTicketsMatchSupplierIssueRows ==
    RunComplete =>
        /\ Len(PerRowTickets) = Len(SupplierIssueRows)
        /\ \A i \in 1..Len(PerRowTickets) :
              PerRowTickets[i].Complaint_ID = SupplierIssueRows[i]["Complaint_ID"]
        /\ Cardinality(PerRowLines) = Len(SupplierIssueRows)

C1_Witness ==
    /\ pc = "done"
    /\ Len(PerRowTickets) >= 1
    /\ \E i \in 1..Len(df) : CategoryOf(df[i]) = LogisticsIssue
    /\ \E i \in 1..Len(df) : CategoryOf(df[i]) = CustomerIssue

SupplierIssueCount(name) ==
    Cardinality({i \in 1..Len(df) :
        CategoryOf(df[i]) = SupplierIssue /\ df[i]["Supplier"] = Str(name)})

AggregateTicketCount(name) ==
    Cardinality({i \in 1..Len(new_tickets) :
        ~IsPerRowTicket(new_tickets[i]) /\ new_tickets[i].Supplier = Str(name)})

\* C2: in a completed run with threshold T, a supplier with exactly T rows
\* classified "Supplier Issue" has exactly one aggregate ticket and a supplier
\* with T-1 such rows has none.
C2_AggregateDecidedBySupplierIssueCount ==
    (RunComplete /\ "Supplier" \in columns) =>
        \A n \in 1..Len(SupplierNames) :
            LET name == SupplierNames[n] IN
            /\ SupplierIssueCount(name) = auto_ticket_threshold
                  => AggregateTicketCount(name) = 1
            /\ SupplierIssueCount(name) = auto_ticket_threshold - 1
                  => AggregateTicketCount(name) = 0

\* the clock reading a Ticket_ID was made from
TicketMs(t) == CHOOSE ms \in 0..(MaxClock + 1) : TicketIdOf(ms) = t.Ticket_ID.s

\* C3: the Ticket_IDs of a run's tickets are strictly increasing in creation
\* order (hence pairwise distinct).
C3_TicketIdsStrictlyIncreasing ==
    \A i, j \in 1..Len(new_tickets) :
        i < j => TicketMs(new_tickets[i]) < TicketMs(new_tickets[j])

\* the ledger holds the ticket an e-mail is about: the ticket it names, or,
\* for a supplier alert, that supplier's aggregate ticket
Appended(e) ==
    \E i \in 1..Len(tickets_file.lines) :
        LET line == tickets_file.lines[i] IN
        IF e.ticket_id # ""
        THEN line[1] = e.ticket_id
        ELSE line[3] = e.supplier.s /\ line # HEADER /\ line[6] # PerRowIssue

\* C4: whenever a notification has been attempted its ticket is already in
\* the ledger, and every created ticket stays in the ledger whatever the
\* outcome of the notifications.
C4_AppendBeforeNotify ==
    /\ \A k \in 1..Len(emails) : Appended(emails[k])
    /\ \A i \in 1..Len(new_tickets) :
          \E l \in 1..Len(tickets_file.lines) :
              tickets_file.lines[l] = writerow(TicketValues(new_tickets[i]))

\* C5: reading the ledger back after a run that started from an initialised,
\* empty ledger returns the run's tickets, in order and field for field.
C5_LedgerRoundTrip ==
    pc = "done" => (tickets_df.ok /\ tickets_df.rows = new_tickets)

\* the policy of the specification, section 4.1
ReferencePolicy(text) ==
    LET t == lower(text) IN
    IF \E w \in {W_damage, W_wrong, W_missing, W_color, W_defect} : contains(w, t)
    THEN SupplierIssue
    ELSE IF \E w \in {W_late, W_courier, W_delivery} : contains(w, t)
    THEN LogisticsIssue
    ELSE CustomerIssue

\* C6: a rule-based call_openai_classify returns what the reference policy
\* gives for the message, and never "Unknown".
C6_RuleBasedAgreesWithPolicy ==
    (classify_call.done /\ classify_call.impl \in {1, 3}) =>
        /\ classify_call.out = ReferencePolicy(classify_call.text)
        /\ classify_call.out # Unknown

\* C7: a batch that lacks a required column leaves no trace: no ticket, no
\* ledger record, no notification.
C7_MissingColumnRejected ==
    ~(required_cols \subseteq columns) =>
        /\ new_tickets = <<>>
        /\ Len(tickets_file.lines) <= 1
        /\ emails = <<>>

\* C8: a failed ledger append does not end the run: the script goes on with
\* the remaining rows and suppliers.
C8_AppendFailureIsolated ==
    error = "PermissionError" => pc # "crashed"

\* C9: send_email_alert returns a pair, (true, detail) exactly when the
\* message was sent and (false, reason) in every failure mode; it never raises.
C9_NotifierReturnsOutcome ==
    notify_call.done =>
        /\ notify_call.result.kind = "pair"
        /\ notify_call.result.success = (notify_call.mode = "ok")

\* ledger lines that are the header / that are whole ticket records
HeaderRows == {i \in 1..Len(tickets_file.lines) : tickets_file.lines[i] = HEADER}
RecordRows ==
    {i \in 1..Len(tickets_file.lines) :
        tickets_file.lines[i] # HEADER /\ tickets_file.lines[i] # Fragment}

RECURSIVE TotalAppended(_)
TotalAppended(n) == IF n = 0 THEN 0 ELSE procs[n].appended + TotalAppended(n - 1)

\* C10: once an execution has finished its initialisation the ledger has
\* exactly one header row, and every record appended so far is in it.
C10_ConcurrentInitSafe ==
    (\E p \in Procs : procs[p].pc = "ready") =>
        /\ Cardinality(HeaderRows) = 1
        /\ Cardinality(RecordRows) = TotalAppended(NumProcs)

\* a notification was attempted for ticket t
Notified(t) ==
    \E k \in 1..Len(emails) : emails[k].ticket_id = t.Ticket_ID.s

\* C11: in a run that went through its ticket loops, with the "Send email
\* alerts for every new ticket" setting on every created ticket has a
\* notification attempt, and with the setting off no notification is attempted.
C11_NotifiedIffFlag ==
    RunComplete =>
        /\ email_alerts => \A i \in 1..Len(new_tickets) : Notified(new_tickets[i])
        /\ ~email_alerts => emails = <<>>

\* row i was counted toward its supplier's aggregate
Counted(i) ==
    IF variant = 3 THEN df[i]["Complaint_ID"] # NaN
    ELSE CategoryOf(df[i]) = SupplierIssue

\* the first row of the batch counted toward the aggregate of `supplier`
FirstCountedRow(supplier) ==
    df[CHOOSE i \in 1..Len(df) :
          /\ df[i]["Supplier"] = supplier /\ Counted(i)
          /\ \A j \in 1..(i - 1) : ~(df[j]["Supplier"] = supplier /\ Counted(j))]

\* C12: every aggregate ticket of a completed run carries the Complaint_ID,
\* Product and Order_ID of the first row of its supplier, in batch order,
\* that was counted toward the supplier's aggregate.
C12_AggregateFromFirstCountedRow ==
    RunComplete =>
        \A i \in 1..Len(new_tickets) :
            LET t == new_tickets[i] IN
            ~IsPerRowTicket(t) =>
                LET row == FirstCountedRow(t.Supplier) IN
                /\ t.Complaint_ID = row["Complaint_ID"]
                /\ t.Product = Get(row, "Product", Str(""))
                /\ t.Order_ID = Get(row, "Order_ID", Str(""))

====
